---------------------------- MODULE Spec2Model ----------------------------
(***************************************************************************)
(* Model of scripts/rkn_registry_check.py: one invocation of main(), which  *)
(* validates a tax identifier (INN), picks one of two acquisition           *)
(* strategies (Playwright browser automation or plain HTTP requests),       *)
(* scrapes the registry page and maps the record to a process exit status.  *)
(*                                                                         *)
(* Python strings that the code inspects character by character are         *)
(* sequences of one-character strings.  The module is ASCII only, so the    *)
(* Cyrillic literals of the source are transliterated ("Найдено: 0" is      *)
(* "Naydeno: 0", the legal-form markers ООО/АО/ИП/ПАО are OOO/AO/IP/PAO)    *)
(* and the character U+00B2 SUPERSCRIPT TWO is written "^2".                *)
(* An Optional[...] value is <<>> (None) or <<v>>.                          *)
(***************************************************************************)
EXTENDS Integers, Sequences, FiniteSets, TLC

VARIABLES
    pc,             \* position of the invocation
    argInn,         \* args.inn, the raw identifier
    method,         \* args.method
    HAS_PLAYWRIGHT, \* the playwright import succeeded
    HAS_REQUESTS,   \* the requests/bs4 import succeeded
    inn,            \* the identifier after normalisation in check_rkn_registry
    result,         \* the RKNOperatorInfo under construction / returned
    called,         \* the strategy functions that were called, in order
    log,            \* calls made on the browser engine and the HTTP session
    page,           \* the browser page after the search was submitted
    rowIdx,         \* index of the next row of the scraping loop
    getResp,        \* response of session.get
    postResp,       \* response of session.post
    exitCode,       \* argument of sys.exit
    accepted        \* value returned by validate_inn (validator specification)

vars == <<pc, argInn, method, HAS_PLAYWRIGHT, HAS_REQUESTS, inn, result, called,
          log, page, rowIdx, getResp, postResp, exitCode, accepted>>

----------------------------------------------------------------------------
(* Bounds of the model *)

MaxInnLen == 13
MaxPad == 1
MaxRows == 2

----------------------------------------------------------------------------
(* Optional values and Python truthiness *)

None == <<>>

Some(v) == <<v>>

\* bool(x) of an Optional[str]: None and the empty string are falsy
Truthy(opt) == opt # None /\ Len(opt[1]) > 0

----------------------------------------------------------------------------
(* Characters and the str methods the code uses *)

DecimalChars == {"0", "1", "2", "3", "4", "5", "6", "7", "8", "9"}

\* characters c for which c.isdigit() is true: the decimal digits and the
\* other characters of Unicode Numeric_Type=Digit, such as U+00B2
IsDigitChar(c) == c \in DecimalChars \cup {"^2"}

\* characters matched by \d in a str pattern: Unicode decimal digits only
IsDecimal(c) == c \in DecimalChars

IsSpace(c) == c \in {" ", "\t", "\n"}

RECURSIVE lstrip(_)
lstrip(s) ==
    IF s # <<>> /\ IsSpace(Head(s)) THEN lstrip(Tail(s)) ELSE s

RECURSIVE rstrip(_)
rstrip(s) ==
    IF s # <<>> /\ IsSpace(s[Len(s)]) THEN rstrip(SubSeq(s, 1, Len(s) - 1)) ELSE s

strip(s) == rstrip(lstrip(s))

\* s.replace(c, "") for a one-character c
RECURSIVE remove(_, _)
remove(s, c) ==
    IF s = <<>> THEN <<>>
    ELSE IF Head(s) = c THEN remove(Tail(s), c)
    ELSE <<Head(s)>> \o remove(Tail(s), c)

\* s.isdigit(): at least one character and all of them digits
isdigit(s) == Len(s) > 0 /\ \A i \in 1..Len(s) : IsDigitChar(s[i])

\* needle in s
Contains(s, needle) ==
    \E i \in 1..(Len(s) - Len(needle) + 1) :
        SubSeq(s, i, i + Len(needle) - 1) = needle

\* s.split("\n")
RECURSIVE splitlines(_)
splitlines(s) ==
    IF \E i \in 1..Len(s) : s[i] = "\n"
    THEN LET i == CHOOSE k \in 1..Len(s) :
                     s[k] = "\n" /\ \A j \in 1..(k - 1) : s[j] # "\n"
         IN <<SubSeq(s, 1, i - 1)>> \o splitlines(SubSeq(s, i + 1, Len(s)))
    ELSE <<s>>

----------------------------------------------------------------------------
(* validate_inn *)

\* lines 51-58
validate_inn(raw) ==
    LET s == strip(raw)
    IN IF ~isdigit(s) THEN FALSE
       ELSE IF Len(s) \notin {10, 12} THEN FALSE
       ELSE TRUE

----------------------------------------------------------------------------
(* The record *)

RKNOperatorInfo(found, i) ==
    [found |-> found, inn |-> i,
     registration_number |-> None, name |-> None, registration_date |-> None,
     start_date |-> None, operator_type |-> None, region |-> None,
     address |-> None, basis |-> None, error |-> None, source_url |-> None]

ExtractedFields ==
    {"registration_number", "name", "registration_date", "start_date",
     "operator_type", "region", "address", "basis"}

\* error messages (transliterated; the interpolated parts are left out)
ErrNoPlaywright == "Playwright ne ustanovlen"
ErrNoRequests == "requests/bs4 ne ustanovleny"
ErrInvalidInn == "Nekorrektnyy INN"
ErrNoMethod == "Net dostupnykh metodov proverki"
ErrNoField == "Ne naydeno pole vvoda INN na stranitse"
ErrTimeout == "Taymaut pri zagruzke stranitsy RKN"
ErrPlaywright == "Oshibka Playwright"
ErrHttpStatus == "Oshibka zagruzki stranitsy: HTTP"
ErrBot == "Sayt trebuet prokhozhdenie proverki bezopasnosti"
ErrRequest == "Oshibka zaprosa"
ErrOther == "Oshibka"

base_url == "https://pd.rkn.gov.ru/operators-registry/operators-list/"

----------------------------------------------------------------------------
(* str.lower, restricted to the letters the page texts use *)

UpperLetters ==
    <<"A","B","C","D","E","F","G","H","I","J","K","L","M","N","O","P",
      "Q","R","S","T","U","V","W","X","Y","Z">>

LowerLetters ==
    <<"a","b","c","d","e","f","g","h","i","j","k","l","m","n","o","p",
      "q","r","s","t","u","v","w","x","y","z">>

LowerChar(c) ==
    IF \E i \in 1..Len(UpperLetters) : UpperLetters[i] = c
    THEN LowerLetters[CHOOSE i \in 1..Len(UpperLetters) : UpperLetters[i] = c]
    ELSE c

lower(s) == [i \in 1..Len(s) |-> LowerChar(s[i])]

----------------------------------------------------------------------------
(* The markers the strategies look for in a page text *)

\* "Найдено: 0"
MarkZero ==
    <<"N","a","y","d","e","n","o",":"," ","0">>

\* "не найдено"
MarkNotFound ==
    <<"n","e"," ","n","a","y","d","e","n","o">>

\* "нет данных"
MarkNoData ==
    <<"n","e","t"," ","d","a","n","n","y","k","h">>

\* "Проверка безопасности"
MarkSecurity ==
    <<"P","r","o","v","e","r","k","a"," ","b","e","z","o","p","a","s",
      "n","o","s","t","i">>

MarkCaptcha ==
    <<"c","a","p","t","c","h","a">>

\* the legal-form markers ООО, АО, ИП, ПАО
LegalMarkers ==
    {<<"O","O","O">>, <<"A","O">>, <<"I","P">>, <<"P","A","O">>}

\* line 152: the browser strategy's test for an empty search result
BrowserNoResults(content) ==
    \/ Contains(content, MarkZero)
    \/ Contains(lower(content), MarkNotFound)
    \/ Contains(lower(content), MarkNoData)

\* line 243: the HTTP strategy's test for an empty search result
RequestsNoResults(text) == Contains(text, MarkZero)

BotDefenseCaseSensitive(text) ==
    Contains(text, MarkSecurity) \/ Contains(text, MarkCaptcha)

\* line 229: the HTTP strategy's test for a bot-defence page
BotDefense(text) ==
    Contains(text, MarkSecurity) \/ Contains(lower(text), MarkCaptcha)

----------------------------------------------------------------------------
(* re.search of the two patterns, and the name heuristic *)

\* index of the last character of the longest run of \d starting at i,
\* i - 1 when there is none
RECURSIVE DigitRunEnd(_, _)
DigitRunEnd(s, i) ==
    IF i <= Len(s) /\ IsDecimal(s[i]) THEN DigitRunEnd(s, i + 1) ELSE i - 1

\* end of the match of \d{2}-\d+-\d+ anchored at i, 0 when it does not match
RegMatchEnd(s, i) ==
    IF i + 2 <= Len(s) /\ IsDecimal(s[i]) /\ IsDecimal(s[i + 1]) /\ s[i + 2] = "-"
    THEN LET e1 == DigitRunEnd(s, i + 3)
         IN IF e1 >= i + 3 /\ e1 + 1 <= Len(s) /\ s[e1 + 1] = "-"
            THEN LET e2 == DigitRunEnd(s, e1 + 2)
                 IN IF e2 >= e1 + 2 THEN e2 ELSE 0
            ELSE 0
    ELSE 0

\* re.search(r'(\d{2}-\d+-\d+)', text): group(1) of the leftmost match
reg_search(text) ==
    IF \E i \in 1..Len(text) : RegMatchEnd(text, i) > 0
    THEN LET i == CHOOSE k \in 1..Len(text) :
                     /\ RegMatchEnd(text, k) > 0
                     /\ \A j \in 1..(k - 1) : RegMatchEnd(text, j) = 0
         IN Some(SubSeq(text, i, RegMatchEnd(text, i)))
    ELSE None

\* \d{2}\.\d{2}\.\d{4} anchored at i
DateMatchAt(s, i) ==
    /\ i + 9 <= Len(s)
    /\ \A k \in {0, 1, 3, 4, 6, 7, 8, 9} : IsDecimal(s[i + k])
    /\ s[i + 2] = "."
    /\ s[i + 5] = "."

\* re.search(r'(\d{2}\.\d{2}\.\d{4})', text)
date_search(text) ==
    IF \E i \in 1..Len(text) : DateMatchAt(text, i)
    THEN LET i == CHOOSE k \in 1..Len(text) :
                     /\ DateMatchAt(text, k)
                     /\ \A j \in 1..(k - 1) : ~DateMatchAt(text, j)
         IN Some(SubSeq(text, i, i + 9))
    ELSE None

\* lines 177-178: the test a stripped line passes to be taken as the name
IsNameLine(line) ==
    /\ Len(line) > 10
    /\ ~isdigit(line)
    /\ \E m \in LegalMarkers : Contains(line, m)

\* lines 174-180: the first line of the row text that passes the test
name_search(text) ==
    LET lines == splitlines(text)
        stripped == [i \in 1..Len(lines) |-> strip(lines[i])]
    IN IF \E i \in 1..Len(stripped) : IsNameLine(stripped[i])
       THEN LET i == CHOOSE k \in 1..Len(stripped) :
                        /\ IsNameLine(stripped[k])
                        /\ \A j \in 1..(k - 1) : ~IsNameLine(stripped[j])
            IN Some(stripped[i])
       ELSE None

ScrapeRowOverwrite(r, text) ==
    LET r1 == IF reg_search(text) # None
              THEN [r EXCEPT !.registration_number = reg_search(text)]
              ELSE r
        r2 == IF name_search(text) # None
              THEN [r1 EXCEPT !.name = name_search(text)]
              ELSE r1
    IN IF date_search(text) # None
       THEN [r2 EXCEPT !.registration_date = date_search(text)]
       ELSE r2

\* lines 165-185: the body of the row loop, applied to one row's inner text
ScrapeRow(r, text) ==
    LET r1 == IF reg_search(text) # None /\ ~Truthy(r.registration_number)
              THEN [r EXCEPT !.registration_number = reg_search(text)]
              ELSE r
        r2 == IF ~Truthy(r1.name) /\ name_search(text) # None
              THEN [r1 EXCEPT !.name = name_search(text)]
              ELSE r1
    IN IF date_search(text) # None /\ ~Truthy(r2.registration_date)
       THEN [r2 EXCEPT !.registration_date = date_search(text)]
       ELSE r2

----------------------------------------------------------------------------
(* Strategy selection and exit status *)

Methods == {"auto", "playwright", "requests"}

SelectStrategyFallback(m, hasPlaywright, hasRequests) ==
    IF (m = "playwright" /\ hasPlaywright) \/ (m = "auto" /\ hasPlaywright)
    THEN "playwright"
    ELSE IF m \in {"requests", "playwright"} \/ (m = "auto" /\ hasRequests)
    THEN "requests"
    ELSE "none"

\* lines 293-302: the branch check_rkn_registry takes for a valid identifier
SelectStrategy(m, hasPlaywright, hasRequests) ==
    IF m = "playwright" \/ (m = "auto" /\ hasPlaywright) THEN "playwright"
    ELSE IF m = "requests" \/ (m = "auto" /\ hasRequests) THEN "requests"
    ELSE "none"

ExitStatusFoundFirst(r) ==
    IF r.found THEN 0
    ELSE IF Truthy(r.error) THEN 2
    ELSE 1

\* lines 355-360: the argument of sys.exit
ExitStatus(r) ==
    IF Truthy(r.error) THEN 2
    ELSE IF r.found THEN 0
    ELSE 1

----------------------------------------------------------------------------
(* Inputs: command lines, and what the registry site answers *)

\* "7707083893" with surrounding whitespace
InnOrgPadded ==
    <<" ","7","7","0","7","0","8","3","8","9","3","\t">>

\* "7707 083 893": spaces inside, removed by the normalisation
InnOrgSpaced ==
    <<"7","7","0","7"," ","0","8","3"," ","8","9","3">>

InnPerson ==
    <<"5","0","0","1","0","0","7","3","2","2","5","9">>

InnShort ==
    <<"1","2","3","4","5">>

InnLetter ==
    <<"7","7","0","7","0","8","3","8","a","3">>

InnEleven ==
    <<"7","7","0","7","0","8","3","8","9","3","1">>

MainInns ==
    {InnOrgPadded, InnOrgSpaced, InnPerson, InnShort, InnLetter, InnEleven}

\* inputs of the validator: up to MaxPad whitespace characters on either
\* side of n digits, one of which may be replaced by another character
DigitCycle == <<"7","7","0","7","0","8","3","8","9","3">>

DigitAt(i) == DigitCycle[((i - 1) % Len(DigitCycle)) + 1]

Defects == {"a", " ", "-", "^2"}

Pad(n, w) == [i \in 1..n |-> w]

Body(n, k, c) == [i \in 1..n |-> IF i = k THEN c ELSE DigitAt(i)]

ValidateInputs ==
    UNION {
        {Pad(l, w) \o b \o Pad(r, w) :
            l \in 0..MaxPad, r \in 0..MaxPad, w \in {" ", "\t"}, b \in
                {Body(n, 0, "a")} \cup {Body(n, k, c) : k \in 1..n, c \in Defects}}
        : n \in 0..MaxInnLen}

\* inner texts of result rows
RowFull ==
    <<"7","7","-","1","2","-","3","4","5","\n","O","O","O"," ","R","o",
      "m","a","s","h","k","a","\n","0","1",".","0","2",".","2","0","2","0">>

RowRegName ==
    <<" ","7","8","-","1","-","2"," ","\n"," ","P","A","O"," ","G","a",
      "z","p","r","o","m"," ","N","e","f","t"," ">>

RowHeader ==
    <<"N","o","m","e","r","\n","N","a","i","m","e","n","o","v","a","n",
      "i","e","\n","D","a","t","a">>

RowNameDate ==
    <<"I","P"," ","P","e","t","r","o","v"," ","P","."," ","0","5",".",
      "0","6",".","2","0","2","1">>

RowDate ==
    <<"3","1",".","1","2",".","2","0","1","9">>

RowTexts == {RowFull, RowRegName, RowHeader, RowNameDate, RowDate}

RowSeqs == UNION {[1..n -> RowTexts] : n \in 0..MaxRows}

\* page texts after the search
PageZero ==
    <<"N","a","y","d","e","n","o",":"," ","0">>

PageZeroLower ==
    <<"n","a","y","d","e","n","o",":"," ","0">>

PageNotFound ==
    <<"N","i","c","h","e","g","o"," ","N","E"," ","N","A","Y","D","E",
      "N","O">>

PageNoData ==
    <<"N","e","t"," ","d","a","n","n","y","k","h">>

PageOne ==
    <<"N","a","y","d","e","n","o",":"," ","1">>

SearchTexts == {PageZero, PageZeroLower, PageNotFound, PageNoData, PageOne}

\* bodies of the first GET
BodyPlain ==
    <<"R","e","e","s","t","r">>

BodySecurity ==
    <<"P","r","o","v","e","r","k","a"," ","b","e","z","o","p","a","s",
      "n","o","s","t","i">>

BodyCaptchaUpper ==
    <<"V","v","e","d","i","t","e"," ","C","A","P","T","C","H","A">>

BodyCaptchaLower ==
    <<"g","-","r","e","c","a","p","t","c","h","a">>

GetBodies == {BodyPlain, BodySecurity, BodyCaptchaUpper, BodyCaptchaLower}

HttpStatuses == {200, 403, 503}

\* tables of the POST response: rows of td cell texts (the header row has none)
CellReg ==
    <<" ","7","7","-","1","2","-","3","4","5"," ">>

CellName ==
    <<"O","O","O"," ","R","o","m","a","s","h","k","a">>

Tables ==
    {None,
     Some(<< <<>> >>),
     Some(<< <<>>, <<CellReg, CellName>> >>),
     Some(<< <<>>, <<CellReg>> >>),
     Some(<< <<>>, <<CellName, CellReg, CellName>>, <<CellReg, CellName>> >>)}

result_url == "https://pd.rkn.gov.ru/operators-registry/operators-list/?act=search"

Urls == {base_url, result_url}

NoPage == [content |-> <<>>, rows |-> <<>>, url |-> ""]

----------------------------------------------------------------------------
(* The invocation *)

Init ==
    /\ pc = "start"
    /\ argInn \in MainInns
    /\ method \in Methods
    /\ HAS_PLAYWRIGHT \in BOOLEAN
    /\ HAS_REQUESTS \in BOOLEAN
    /\ inn = <<>>
    /\ result = RKNOperatorInfo(FALSE, <<>>)
    /\ called = <<>>
    /\ log = <<>>
    /\ page = NoPage
    /\ rowIdx = 0
    /\ getResp = None
    /\ postResp = None
    /\ exitCode = None
    /\ accepted = None

\* the record with the error set
WithError(r, msg) == [r EXCEPT !.error = Some(msg)]

check_rkn_registry_unvalidated ==
    /\ pc = "start"
    /\ inn' = remove(strip(argInn), " ")
    /\ LET s == SelectStrategy(method, HAS_PLAYWRIGHT, HAS_REQUESTS)
       IN IF s = "playwright" THEN pc' = "pw_enter" /\ result' = result
          ELSE IF s = "requests" THEN pc' = "rq_enter" /\ result' = result
          ELSE /\ pc' = "returned"
               /\ result' = WithError(RKNOperatorInfo(FALSE, inn'), ErrNoMethod)
    /\ UNCHANGED <<argInn, method, HAS_PLAYWRIGHT, HAS_REQUESTS, called, log,
                   page, rowIdx, getResp, postResp, exitCode, accepted>>

\* lines 284-302: normalise, validate, branch to a strategy
check_rkn_registry ==
    /\ pc = "start"
    /\ inn' = remove(strip(argInn), " ")
    /\ IF ~validate_inn(inn')
       THEN /\ pc' = "returned"
            /\ result' = WithError(RKNOperatorInfo(FALSE, inn'), ErrInvalidInn)
       ELSE LET s == SelectStrategy(method, HAS_PLAYWRIGHT, HAS_REQUESTS)
            IN IF s = "playwright" THEN pc' = "pw_enter" /\ result' = result
               ELSE IF s = "requests" THEN pc' = "rq_enter" /\ result' = result
               ELSE /\ pc' = "returned"
                    /\ result' = WithError(RKNOperatorInfo(FALSE, inn'), ErrNoMethod)
    /\ UNCHANGED <<argInn, method, HAS_PLAYWRIGHT, HAS_REQUESTS, called, log,
                   page, rowIdx, getResp, postResp, exitCode, accepted>>

\* lines 354-360
MainExit ==
    /\ pc = "returned"
    /\ exitCode' = Some(ExitStatus(result))
    /\ pc' = "exited"
    /\ UNCHANGED <<argInn, method, HAS_PLAYWRIGHT, HAS_REQUESTS, inn, result,
                   called, log, page, rowIdx, getResp, postResp, accepted>>

----------------------------------------------------------------------------
(* check_rkn_registry_playwright *)

\* outcomes of a call on the browser engine: it returns, it raises
\* PlaywrightTimeout, or it raises another exception
Outcomes == {"ok", "timeout", "error"}

NumInnSelectors == 5

\* lines 189-192: the except clauses, reached from inside the with block,
\* whose exit stops the Playwright driver
PwRaise(o) ==
    /\ result' = WithError(result, IF o = "timeout" THEN ErrTimeout ELSE ErrPlaywright)
    /\ log' = log \o <<"stop">>
    /\ pc' = "returned"

\* lines 66-73
PwEnter ==
    /\ pc = "pw_enter"
    /\ called' = Append(called, "playwright")
    /\ IF ~HAS_PLAYWRIGHT
       THEN /\ result' = WithError(RKNOperatorInfo(FALSE, inn), ErrNoPlaywright)
            /\ pc' = "returned"
       ELSE /\ result' = RKNOperatorInfo(FALSE, inn)
            /\ pc' = "pw_launch"
    /\ UNCHANGED <<argInn, method, HAS_PLAYWRIGHT, HAS_REQUESTS, inn, log, page,
                   rowIdx, getResp, postResp, exitCode, accepted>>

\* lines 76-77: sync_playwright() is entered and the browser is launched
PwLaunch ==
    /\ pc = "pw_launch"
    /\ \E o \in Outcomes \cup {"start_error"} :
          IF o = "start_error"
          THEN /\ result' = WithError(result, ErrPlaywright)
               /\ pc' = "returned"
               /\ log' = log
          ELSE IF o = "ok"
          THEN /\ log' = log \o <<"start", "launch">>
               /\ pc' = "pw_open"
               /\ result' = result
          ELSE /\ result' = WithError(result,
                               IF o = "timeout" THEN ErrTimeout ELSE ErrPlaywright)
               /\ log' = log \o <<"start", "stop">>
               /\ pc' = "returned"
    /\ UNCHANGED <<argInn, method, HAS_PLAYWRIGHT, HAS_REQUESTS, inn, called, page,
                   rowIdx, getResp, postResp, exitCode, accepted>>

\* lines 78-85: new_context, new_page, goto
PwOpen ==
    /\ pc = "pw_open"
    /\ \E o \in Outcomes :
          IF o = "ok"
          THEN log' = log \o <<"goto">> /\ pc' = "pw_field" /\ result' = result
          ELSE PwRaise(o)
    /\ UNCHANGED <<argInn, method, HAS_PLAYWRIGHT, HAS_REQUESTS, inn, called, page,
                   rowIdx, getResp, postResp, exitCode, accepted>>

\* lines 89-113: the selector loop (a selector either yields the element or
\* its wait raises, which the loop swallows), the fallback query, and the
\* exit when there is no input field
PwFindField ==
    /\ pc = "pw_field"
    /\ \E hits \in [1..NumInnSelectors -> BOOLEAN],
          fallback \in {"element", "none", "error"},
          close \in {"ok", "error"} :
          IF (\E i \in 1..NumInnSelectors : hits[i]) \/ fallback = "element"
          THEN pc' = "pw_submit" /\ result' = result /\ log' = log
          ELSE IF fallback = "error"
          THEN PwRaise("error")
          ELSE /\ result' = IF close = "ok"
                            THEN WithError(result, ErrNoField)
                            ELSE WithError(WithError(result, ErrNoField), ErrPlaywright)
               /\ log' = log \o <<"close", "stop">>
               /\ pc' = "returned"
    /\ UNCHANGED <<argInn, method, HAS_PLAYWRIGHT, HAS_REQUESTS, inn, called, page,
                   rowIdx, getResp, postResp, exitCode, accepted>>

\* lines 116-145: fill the field, click the button found by the selector
\* list or press Enter, wait for the page to settle
PwSubmit ==
    /\ pc = "pw_submit"
    /\ \E o \in Outcomes, button \in BOOLEAN, c \in SearchTexts, rs \in RowSeqs,
          u \in Urls :
          IF o = "ok"
          THEN /\ log' = log \o <<"fill", IF button THEN "click" ELSE "press">>
               /\ page' = [content |-> c, rows |-> rs, url |-> u]
               /\ pc' = "pw_content"
               /\ result' = result
          ELSE PwRaise(o) /\ page' = page
    /\ UNCHANGED <<argInn, method, HAS_PLAYWRIGHT, HAS_REQUESTS, inn, called,
                   rowIdx, getResp, postResp, exitCode, accepted>>

\* lines 148-155: read the page, record its URL, return on an empty result
PwContent ==
    /\ pc = "pw_content"
    /\ \E o \in Outcomes, close \in {"ok", "error"} :
          IF o # "ok"
          THEN PwRaise(o)
          ELSE LET r == [result EXCEPT !.source_url = Some(page.url)]
               IN IF BrowserNoResults(page.content)
                  THEN /\ result' = IF close = "ok"
                                    THEN [r EXCEPT !.found = FALSE]
                                    ELSE WithError([r EXCEPT !.found = FALSE],
                                                   ErrPlaywright)
                       /\ log' = log \o <<"close", "stop">>
                       /\ pc' = "returned"
                  ELSE result' = r /\ log' = log /\ pc' = "pw_query"
    /\ UNCHANGED <<argInn, method, HAS_PLAYWRIGHT, HAS_REQUESTS, inn, called, page,
                   rowIdx, getResp, postResp, exitCode, accepted>>

\* lines 158-161: query the result elements
PwQuery ==
    /\ pc = "pw_query"
    /\ \E o \in Outcomes :
          IF o # "ok"
          THEN PwRaise(o) /\ rowIdx' = rowIdx
          ELSE /\ log' = log
               /\ IF page.rows # <<>>
                  THEN /\ result' = [result EXCEPT !.found = TRUE]
                       /\ rowIdx' = 1
                       /\ pc' = "pw_row"
                  ELSE result' = result /\ rowIdx' = rowIdx /\ pc' = "pw_close"
    /\ UNCHANGED <<argInn, method, HAS_PLAYWRIGHT, HAS_REQUESTS, inn, called, page,
                   getResp, postResp, exitCode, accepted>>

\* lines 164-185: one iteration of the row loop
PwRow ==
    /\ pc = "pw_row"
    /\ rowIdx <= Len(page.rows)
    /\ \E o \in Outcomes :
          IF o # "ok"
          THEN PwRaise(o) /\ rowIdx' = rowIdx
          ELSE /\ result' = ScrapeRow(result, page.rows[rowIdx])
               /\ rowIdx' = rowIdx + 1
               /\ log' = log
               /\ pc' = IF rowIdx = Len(page.rows) THEN "pw_close" ELSE "pw_row"
    /\ UNCHANGED <<argInn, method, HAS_PLAYWRIGHT, HAS_REQUESTS, inn, called, page,
                   getResp, postResp, exitCode, accepted>>

\* lines 187-194: close the browser, leave the with block, return
PwClose ==
    /\ pc = "pw_close"
    /\ \E close \in {"ok", "error"} :
          result' = IF close = "ok" THEN result ELSE WithError(result, ErrPlaywright)
    /\ log' = log \o <<"close", "stop">>
    /\ pc' = "returned"
    /\ UNCHANGED <<argInn, method, HAS_PLAYWRIGHT, HAS_REQUESTS, inn, called, page,
                   rowIdx, getResp, postResp, exitCode, accepted>>

----------------------------------------------------------------------------
(* check_rkn_registry_requests *)

HttpOutcomes == {"ok", "request_exception", "error"}

\* lines 264-267
RqRaise(o) ==
    /\ result' = WithError(result, IF o = "request_exception" THEN ErrRequest ELSE ErrOther)
    /\ pc' = "returned"

\* lines 202-209
RqEnter ==
    /\ pc = "rq_enter"
    /\ called' = Append(called, "requests")
    /\ IF ~HAS_REQUESTS
       THEN /\ result' = WithError(RKNOperatorInfo(FALSE, inn), ErrNoRequests)
            /\ pc' = "returned"
       ELSE /\ result' = RKNOperatorInfo(FALSE, inn)
            /\ pc' = "rq_get"
    /\ UNCHANGED <<argInn, method, HAS_PLAYWRIGHT, HAS_REQUESTS, inn, log, page,
                   rowIdx, getResp, postResp, exitCode, accepted>>

\* lines 212-231: the first GET, the status check and the bot-defence check
RqGet ==
    /\ pc = "rq_get"
    /\ log' = Append(log, "GET")
    /\ \E o \in HttpOutcomes, st \in HttpStatuses, body \in GetBodies :
          IF o # "ok"
          THEN RqRaise(o) /\ getResp' = getResp
          ELSE /\ getResp' = Some([status_code |-> st, text |-> body])
               /\ IF st # 200
                  THEN result' = WithError(result, ErrHttpStatus) /\ pc' = "returned"
                  ELSE IF BotDefense(body)
                  THEN result' = WithError(result, ErrBot) /\ pc' = "returned"
                  ELSE result' = result /\ pc' = "rq_post"
    /\ UNCHANGED <<argInn, method, HAS_PLAYWRIGHT, HAS_REQUESTS, inn, called, page,
                   rowIdx, postResp, exitCode, accepted>>

\* lines 234-245: the search POST and the empty-result check
RqPost ==
    /\ pc = "rq_post"
    /\ log' = Append(log, "POST")
    /\ \E o \in HttpOutcomes, body \in SearchTexts, t \in Tables, u \in Urls :
          IF o # "ok"
          THEN RqRaise(o) /\ postResp' = postResp
          ELSE /\ postResp' = Some([text |-> body, table |-> t, url |-> u])
               /\ IF RequestsNoResults(body)
                  THEN result' = [result EXCEPT !.found = FALSE] /\ pc' = "returned"
                  ELSE result' = result /\ pc' = "rq_parse"
    /\ UNCHANGED <<argInn, method, HAS_PLAYWRIGHT, HAS_REQUESTS, inn, called, page,
                   rowIdx, getResp, exitCode, accepted>>

\* lines 251-260: the fields taken from the first table of the response
ExtractTable(r, table) ==
    IF table # None /\ Len(table[1]) > 1
    THEN LET cells == table[1][2]
             r1 == [r EXCEPT !.found = TRUE]
         IN IF Len(cells) >= 2
            THEN [r1 EXCEPT !.registration_number = Some(strip(cells[1])),
                            !.name = IF Len(cells) > 1
                                     THEN Some(strip(cells[2]))
                                     ELSE None]
            ELSE r1
    ELSE r

\* lines 248-269: parse the response, extract, record the URL, return
RqParse ==
    /\ pc = "rq_parse"
    /\ log' = Append(log, "extract")
    /\ result' = [ExtractTable(result, postResp[1].table)
                    EXCEPT !.source_url = Some(postResp[1].url)]
    /\ pc' = "returned"
    /\ UNCHANGED <<argInn, method, HAS_PLAYWRIGHT, HAS_REQUESTS, inn, called, page,
                   rowIdx, getResp, postResp, exitCode, accepted>>

----------------------------------------------------------------------------
(* Specifications *)

Next ==
    \/ check_rkn_registry
    \/ PwEnter
    \/ PwLaunch
    \/ PwOpen
    \/ PwFindField
    \/ PwSubmit
    \/ PwContent
    \/ PwQuery
    \/ PwRow
    \/ PwClose
    \/ RqEnter
    \/ RqGet
    \/ RqPost
    \/ RqParse
    \/ MainExit

Spec == Init /\ [][Next]_vars

\* the validator alone, applied to raw strings
InitValidate ==
    /\ pc = "validate"
    /\ argInn \in ValidateInputs
    /\ method = "auto"
    /\ HAS_PLAYWRIGHT = FALSE
    /\ HAS_REQUESTS = FALSE
    /\ inn = <<>>
    /\ result = RKNOperatorInfo(FALSE, <<>>)
    /\ called = <<>>
    /\ log = <<>>
    /\ page = NoPage
    /\ rowIdx = 0
    /\ getResp = None
    /\ postResp = None
    /\ exitCode = None
    /\ accepted = None

ValidateCall ==
    /\ pc = "validate"
    /\ accepted' = Some(validate_inn(argInn))
    /\ pc' = "validated"
    /\ UNCHANGED <<argInn, method, HAS_PLAYWRIGHT, HAS_REQUESTS, inn, result,
                   called, log, page, rowIdx, getResp, postResp, exitCode>>

NextValidate == ValidateCall

SpecValidate == InitValidate /\ [][NextValidate]_vars

----------------------------------------------------------------------------
(* Properties *)

\* the lookup has returned to main
Returned == pc \in {"returned", "exited"}

InLog(e) == \E i \in 1..Len(log) : log[i] = e

\* the identifier passes validate_inn after the normalisation of line 284
ValidArg == validate_inn(remove(strip(argInn), " "))

\* C1: in every record the lookup returns, an error comes with found = false
\* and with every extracted field unset.
C1_ErrorMeansNoData ==
    (Returned /\ result.error # None) =>
        /\ ~result.found
        /\ \A f \in ExtractedFields : result[f] = None

\* C2: once the browser has been launched, a close call on the browser is
\* recorded before the browser strategy returns, on every exit path.
C2_BrowserClosedOnReturn ==
    (Returned /\ InLog("launch")) => InLog("close")

\* C3: the exit status is 2 whenever the returned record has an error,
\* otherwise 0 when found, otherwise 1; it is set only when main exits.
C3_ExitStatus ==
    /\ pc = "exited" =>
          exitCode = Some(IF result.error # None THEN 2
                          ELSE IF result.found THEN 0 ELSE 1)
    /\ pc # "exited" => exitCode = None

C3_Witness ==
    /\ pc = "exited"
    /\ result.error # None
    /\ result.found
    /\ exitCode = Some(2)

\* C4: an identifier that fails validation after normalisation yields an
\* error record with found = false, no strategy is called and no browser or
\* HTTP call is made, whatever the method and the capabilities; main exits
\* with status 2.
C4_InvalidShortCircuits ==
    (pc # "start" /\ ~ValidArg) =>
        /\ Returned
        /\ result.error = Some(ErrInvalidInn)
        /\ ~result.found
        /\ called = <<>>
        /\ log = <<>>
        /\ pc = "exited" => exitCode = Some(2)

C4_Witness ==
    /\ pc = "exited"
    /\ argInn = InnShort
    /\ method = "playwright"
    /\ HAS_PLAYWRIGHT
    /\ HAS_REQUESTS
    /\ result.error = Some(ErrInvalidInn)
    /\ log = <<>>
    /\ exitCode = Some(2)

\* the strategy the selector is to call: the requested one, or with auto the
\* browser strategy if available, else the HTTP strategy if available
C5_Expected ==
    IF method = "playwright" THEN <<"playwright">>
    ELSE IF method = "requests" THEN <<"requests">>
    ELSE IF HAS_PLAYWRIGHT THEN <<"playwright">>
    ELSE IF HAS_REQUESTS THEN <<"requests">>
    ELSE <<>>

C5_ExpectedError ==
    IF method = "playwright" /\ ~HAS_PLAYWRIGHT THEN Some(ErrNoPlaywright)
    ELSE IF method = "requests" /\ ~HAS_REQUESTS THEN Some(ErrNoRequests)
    ELSE IF method = "auto" /\ ~HAS_PLAYWRIGHT /\ ~HAS_REQUESTS THEN Some(ErrNoMethod)
    ELSE None

BrowserEvents == {"start", "launch", "goto", "fill", "click", "press", "close", "stop"}

HttpEvents == {"GET", "POST", "extract"}

\* C5: for a valid identifier the requested strategy is the one called (with
\* auto: browser if available, else HTTP if available, else the "no method"
\* error); a missing capability yields its error without any browser or HTTP
\* call; at most one strategy is called and only its calls are ever made,
\* also when it fails.
C5_StrategySelection ==
    ValidArg =>
        /\ Len(called) <= 1
        /\ called # <<>> => called = C5_Expected
        /\ Returned => called = C5_Expected
        /\ (Returned /\ C5_ExpectedError # None) =>
              result.error = C5_ExpectedError /\ log = <<>>
        /\ \A i \in 1..Len(log) :
              /\ log[i] \in BrowserEvents => called = <<"playwright">>
              /\ log[i] \in HttpEvents => called = <<"requests">>

C5_Witness ==
    /\ pc = "exited"
    /\ ValidArg
    /\ method = "requests"
    /\ HAS_PLAYWRIGHT
    /\ HAS_REQUESTS
    /\ called = <<"requests">>
    /\ result.error = Some(ErrRequest)
    /\ log = <<"GET">>

\* what the validator is to accept: after stripping, only decimal digits,
\* ten or twelve of them
C6_Accepts(raw) ==
    LET s == strip(raw)
    IN /\ \A i \in 1..Len(s) : s[i] \in DecimalChars
       /\ Len(s) \in {10, 12}

\* C6: validate_inn accepts a raw string if and only if, after stripping
\* leading and trailing whitespace, every character is a decimal digit and
\* the length is exactly 10 or 12.
C6_ValidatorContract ==
    pc = "validated" => accepted = Some(C6_Accepts(argInn))

\* a bot-defence marker: the security-check text, or "captcha" in any case
C7_BotMarker(text) ==
    Contains(text, MarkSecurity) \/ Contains(lower(text), MarkCaptcha)

\* C7: in the HTTP strategy, when the body of the first GET holds a
\* bot-defence marker, the record returned has an error and found = false and
\* neither the search POST nor a table extraction ever happens; a POST is
\* only issued after a GET that returned status 200.
C7_BotDefenceStops ==
    /\ (getResp # None /\ C7_BotMarker(getResp[1].text)) =>
          /\ ~InLog("POST")
          /\ ~InLog("extract")
          /\ Returned
          /\ result.error # None
          /\ ~result.found
    /\ InLog("POST") => (getResp # None /\ getResp[1].status_code = 200)

C7_Witness ==
    /\ pc = "exited"
    /\ getResp = Some([status_code |-> 200, text |-> BodyCaptchaUpper])
    /\ result.error = Some(ErrBot)
    /\ log = <<"GET">>

\* a zero-results or not-found marker in a page text
C8_NoResultsMarker(text) ==
    \/ Contains(text, MarkZero)
    \/ Contains(lower(text), MarkNotFound)
    \/ Contains(lower(text), MarkNoData)

\* C8: when the page after the search holds a zero-results or not-found
\* marker, either strategy returns found = false, no error and no extracted
\* field, also when the page holds result rows.
C8_NoResultsMeansNotFound ==
    /\ (Returned /\ page # NoPage /\ C8_NoResultsMarker(page.content)) =>
          /\ ~result.found
          /\ result.error = None
          /\ \A f \in ExtractedFields : result[f] = None
    /\ (Returned /\ postResp # None /\ C8_NoResultsMarker(postResp[1].text)) =>
          /\ ~result.found
          /\ result.error = None
          /\ \A f \in ExtractedFields : result[f] = None

ScrapedFields == {"registration_number", "name", "registration_date"}

\* the value the first of the rows that yields one gives
FirstMatch(rows, f) ==
    LET m(i) == IF f = "registration_number" THEN reg_search(rows[i])
                ELSE IF f = "name" THEN name_search(rows[i])
                ELSE date_search(rows[i])
        hit == {i \in 1..Len(rows) : m(i) # None}
    IN IF hit = {} THEN None
       ELSE m(CHOOSE i \in hit : \A j \in hit : i <= j)

\* C9: in the row loop each of registration_number, name and
\* registration_date is written at most once: a field that is set is left
\* unchanged by every later row, each field on its own, so that after the
\* loop each field holds the match of the first row that yields one.
C9_FirstMatchWins ==
    /\ [][\A f \in ScrapedFields :
            (pc = "pw_row" /\ result[f] # None) => result'[f] = result[f]]_vars
    /\ [](pc = "pw_close" =>
            \A f \in ScrapedFields : result[f] = FirstMatch(page.rows, f))

C9_Witness ==
    /\ pc = "pw_close"
    /\ page.rows = <<RowNameDate, RowFull>>
    /\ result.name = name_search(RowNameDate)
    /\ result.registration_date = date_search(RowNameDate)
    /\ result.registration_number = reg_search(RowFull)
    /\ name_search(RowFull) \notin {None, result.name}
    /\ date_search(RowFull) \notin {None, result.registration_date}

\* C10: a record returned without error after the search was submitted has
\* source_url set to the final URL of the search, on the found path and on
\* the zero-results path.
C10_SourceUrlRecorded ==
    /\ (Returned /\ result.error = None /\ page # NoPage) =>
          result.source_url = Some(page.url)
    /\ (Returned /\ result.error = None /\ postResp # None) =>
          result.source_url = Some(postResp[1].url)

=============================================================================
